---- MODULE Spec2Model ----
(***************************************************************************)
(* NodeCrypt WebRTC call signaling: RTCSignaling (the call signaling       *)
(* coordinator) driving RTCManager (the transport session adapter) for one *)
(* local endpoint.  Remote peers, the secure channel (nodeCrypt) and the   *)
(* transport engine (RTCPeerConnection) are the environment.               *)
(*                                                                         *)
(* JavaScript runs handlers to completion between awaits.  An await on an  *)
(* engine operation (createOffer, setLocalDescription,                     *)
(* setRemoteDescription, createAnswer) suspends the handler until a later  *)
(* task, so every such await is a separate step of the model; an await on  *)
(* an already settled promise only defers to the microtask queue and is    *)
(* folded into the step that precedes it.                                  *)
(***************************************************************************)
EXTENDS Integers, Sequences, FiniteSets, TLC

\* ------------------------------------------------------------------ inputs
Peers == {"p1", "p2"}
LocalCallIds == {"c1"}     \* ids initiateCall is given or generates
RemoteCallIds == {"c2"}    \* ids of the calls remote peers propose
Reasons == {"user-rejected", "busy"}
Cands == {"k1"}            \* candidates of inbound rtc:ice-candidate messages; order is by position

\* ------------------------------------------------------------------ bounds
\* External events (local intents, inbound messages, engine events, channel
\* changes) taken in one behaviour.
MaxEvents == 3

VARIABLES
    peerConnections,  \* RTCManager.peerConnections: peerId -> index into pcs, 0 when absent
    dataChannels,     \* RTCManager.dataChannels: peerId -> index of the owning connection, 0 when absent
    localStream,      \* RTCManager.localStream: "live", "stopped" (tracks ended) or "null"
    pcs,              \* every RTCPeerConnection object created so far, in creation order
    activeCalls,      \* RTCSignaling.activeCalls: peerId -> call record, NoCall when absent
    dialogs,          \* incoming-call dialogs shown by RTCUIManager.handleCallRequest
    isOpen,           \* nodeCrypt.isOpen()
    sent,             \* messages handed to nodeCrypt.send by the step just taken, in order
    tasks,            \* handlers suspended on an engine operation
    early,            \* per peer: candidates received while no remote description was applied
    now,              \* Date.now(): a logical clock, advanced by every external event
    ret               \* result or callback surfaced to the consumer by the step just taken

vars == <<peerConnections, dataChannels, localStream, pcs, activeCalls, dialogs,
          isOpen, sent, tasks, early, now, ret>>

NoCall == [callId |-> "none", initiator |-> FALSE, startTime |-> 0, state |-> "none"]
NoRet == [op |-> "none", peerId |-> "none", status |-> "none"]

Ret(op, p, status) == [op |-> op, peerId |-> p, status |-> status]

\* ------------------------------------------------------- transport engine
\* One RTCPeerConnection object.  local / remote are the committed session
\* descriptions, cands the candidates handed to pc.addIceCandidate (late
\* tells whether a remote description was committed at that moment).
NewPc(p, isInitiator, hasTracks) ==
    [peerId |-> p, isInitiator |-> isInitiator, tracks |-> hasTracks, closed |-> FALSE,
     local |-> "none", remote |-> "none", cands |-> <<>>]

\* Whether the engine can complete operation op on connection c.  A closed
\* connection completes nothing; an answer can only be created or committed
\* against a pending remote offer, and a remote answer only against a
\* committed local offer.
EngineCanComplete(c, op) ==
    /\ ~c.closed
    /\ op \in {"createAnswer", "setLocalAnswer"} => c.remote = "offer"
    /\ op = "setRemoteAnswer" => c.local = "offer"

\* ------------------------------------------------------------- RTCManager
Mgr == [pc |-> peerConnections, dc |-> dataChannels, ls |-> localStream, heap |-> pcs]

SetMgr(m) ==
    /\ peerConnections' = m.pc
    /\ dataChannels' = m.dc
    /\ localStream' = m.ls
    /\ pcs' = m.heap

\* createPeerConnection(peerId, isInitiator), when the engine constructs the
\* connection: local tracks are attached, the initiator's data channel is
\* registered, and the registry entry for peerId is set unconditionally.
createPeerConnection(m, p, isInitiator) ==
    LET i == Len(m.heap) + 1 IN
    [pc |-> [m.pc EXCEPT ![p] = i],
     dc |-> IF isInitiator THEN [m.dc EXCEPT ![p] = i] ELSE m.dc,
     ls |-> m.ls,
     heap |-> Append(m.heap, NewPc(p, isInitiator, m.ls # "null"))]

\* closePeerConnection without peerConnections.delete(peerId): the closed
\* connection stays registered.
closePeerConnectionKeepsEntry(m, p) ==
    IF m.pc[p] = 0 THEN m
    ELSE [pc |-> m.pc,
          dc |-> [m.dc EXCEPT ![p] = 0],
          ls |-> IF m.heap[m.pc[p]].tracks /\ m.ls = "live" THEN "stopped" ELSE m.ls,
          heap |-> [m.heap EXCEPT ![m.pc[p]].closed = TRUE]]

\* closePeerConnection without the test for a registered connection around
\* the track stop: the local tracks are stopped for an unknown peer too.
closePeerConnectionUnguarded(m, p) ==
    IF m.pc[p] = 0 THEN [m EXCEPT !.ls = IF m.ls = "live" THEN "stopped" ELSE m.ls]
    ELSE [pc |-> [m.pc EXCEPT ![p] = 0],
          dc |-> [m.dc EXCEPT ![p] = 0],
          ls |-> IF m.heap[m.pc[p]].tracks /\ m.ls = "live" THEN "stopped" ELSE m.ls,
          heap |-> [m.heap EXCEPT ![m.pc[p]].closed = TRUE]]

\* closePeerConnection(peerId): stops every sender track of the registered
\* connection (the tracks are those of the shared local stream), closes it
\* and removes both registry entries; nothing when peerId is not registered.
closePeerConnection(m, p) ==
    IF m.pc[p] = 0 THEN m
    ELSE [pc |-> [m.pc EXCEPT ![p] = 0],
          dc |-> [m.dc EXCEPT ![p] = 0],
          ls |-> IF m.heap[m.pc[p]].tracks /\ m.ls = "live" THEN "stopped" ELSE m.ls,
          heap |-> [m.heap EXCEPT ![m.pc[p]].closed = TRUE]]

\* stopLocalStream()
stopLocalStream(m) == [m EXCEPT !.ls = "null"]

RECURSIVE CloseAll(_, _)
CloseAll(m, ps) ==
    IF ps = {} THEN m
    ELSE LET p == CHOOSE q \in ps : TRUE IN CloseAll(closePeerConnection(m, p), ps \ {p})

\* RTCManager.destroy()
destroyManager(m) ==
    LET c == CloseAll(stopLocalStream(m), {p \in Peers : m.pc[p] # 0}) IN
    [c EXCEPT !.pc = [p \in Peers |-> 0], !.dc = [p \in Peers |-> 0]]

\* ----------------------------------------------------------- RTCSignaling
Msg(p, type, callId, reason) == [to |-> p, type |-> type, callId |-> callId, reason |-> reason]

\* sendSignalingMessage(peerId, messageType, payload): what reaches
\* nodeCrypt.send
sendSignalingMessage(p, type, callId, reason) ==
    IF isOpen THEN <<Msg(p, type, callId, reason)>> ELSE <<>>

Task(kind, p, i, pos, callId) ==
    [kind |-> kind, peerId |-> p, pc |-> i, pos |-> pos, callId |-> callId, ended |-> FALSE]

RemoveAt(s, i) == SubSeq(s, 1, i - 1) \o SubSeq(s, i + 1, Len(s))

\* A teardown for peer p reaches the handlers of p that are still suspended.
MarkEnded(ts, p) ==
    [i \in DOMAIN ts |-> IF ts[i].peerId = p THEN [ts[i] EXCEPT !.ended = TRUE] ELSE ts[i]]

RemoteApplied(p) == peerConnections[p] # 0 /\ pcs[peerConnections[p]].remote # "none"

\* The candidates of a closed session are no longer awaited.
EarlyAfterClose(p) == IF peerConnections[p] # 0 THEN [early EXCEPT ![p] = <<>>] ELSE early

\* A call record as initiateCall and acceptCall store it.
Call(callId, initiator) ==
    [callId |-> callId, initiator |-> initiator, startTime |-> now, state |-> "connecting"]

\* An external event is taken: the clock advances.
Event == now <= MaxEvents /\ now' = now + 1

\* The step sends nothing and surfaces nothing to the consumer.
Quiet == sent' = <<>> /\ ret' = NoRet

\* The endpoint once initialize() has returned: the manager is constructed and
\* the local stream acquired; no connection, call or dialog exists.
Init ==
    /\ peerConnections = [p \in Peers |-> 0]
    /\ dataChannels = [p \in Peers |-> 0]
    /\ localStream = "live"
    /\ pcs = <<>>
    /\ activeCalls = [p \in Peers |-> NoCall]
    /\ dialogs = {}
    /\ isOpen = TRUE
    /\ sent = <<>>
    /\ tasks = <<>>
    /\ early = [p \in Peers |-> <<>>]
    /\ now = 1
    /\ ret = NoRet

\* ---------------------------------------------------------- local intents
\* initiateCall(peerId, callId) up to its first engine await.  engineOk tells
\* whether new RTCPeerConnection() succeeds.
InitiateCall(p, id, engineOk) ==
    /\ Event
    /\ sent' = sendSignalingMessage(p, "rtc:call-request", id, "")
    /\ IF engineOk
       THEN /\ SetMgr(createPeerConnection(Mgr, p, TRUE))
            /\ tasks' = Append(tasks, Task("initiateCall", p, Len(pcs) + 1, "createOffer", id))
            /\ ret' = NoRet
       ELSE /\ UNCHANGED <<peerConnections, dataChannels, localStream, pcs, tasks>>
            /\ ret' = Ret("initiateCall", p, "error")
    /\ UNCHANGED <<activeCalls, dialogs, isOpen, early>>

\* The continuation of initiateCall when the engine settles the awaited
\* operation of suspended handler k: createOffer, then setLocalDescription,
\* after which onOffer sends the offer and the call is recorded.
InitiateCallResume(k, ok) ==
    /\ k \in DOMAIN tasks
    /\ tasks[k].kind = "initiateCall"
    /\ LET t == tasks[k]
           c == pcs[t.pc]
       IN /\ ok => EngineCanComplete(c, t.pos)
          /\ IF ~ok
             THEN /\ tasks' = RemoveAt(tasks, k)
                  /\ sent' = <<>>
                  /\ ret' = Ret("initiateCall", t.peerId, "error")
                  /\ UNCHANGED <<pcs, activeCalls>>
             ELSE IF t.pos = "createOffer"
             THEN /\ tasks' = [tasks EXCEPT ![k].pos = "setLocalOffer"]
                  /\ Quiet
                  /\ UNCHANGED <<pcs, activeCalls>>
             ELSE /\ pcs' = [pcs EXCEPT ![t.pc].local = "offer"]
                  /\ sent' = sendSignalingMessage(t.peerId, "rtc:offer", "", "")
                  /\ activeCalls' = [activeCalls EXCEPT ![t.peerId] = Call(t.callId, TRUE)]
                  /\ tasks' = RemoveAt(tasks, k)
                  /\ ret' = Ret("initiateCall", t.peerId, "ok")
    /\ UNCHANGED <<peerConnections, dataChannels, localStream, dialogs, isOpen, early, now>>

\* acceptCall(peerId, callId); the accept button of the dialog removes the
\* dialog once acceptCall has returned.
AcceptCall(p, c, engineOk) ==
    /\ Event
    /\ IF engineOk
       THEN /\ SetMgr(createPeerConnection(Mgr, p, FALSE))
            /\ sent' = sendSignalingMessage(p, "rtc:call-accept", c, "")
            /\ activeCalls' = [activeCalls EXCEPT ![p] = Call(c, FALSE)]
            /\ dialogs' = dialogs \ {<<p, c>>}
            /\ ret' = Ret("acceptCall", p, "ok")
       ELSE /\ UNCHANGED <<peerConnections, dataChannels, localStream, pcs,
                           activeCalls, dialogs>>
            /\ sent' = <<>>
            /\ ret' = Ret("acceptCall", p, "error")
    /\ UNCHANGED <<isOpen, tasks, early>>

\* rejectCall(peerId, callId, reason); the reject button removes the dialog.
RejectCall(p, c, reason) ==
    /\ Event
    /\ sent' = sendSignalingMessage(p, "rtc:call-reject", c, reason)
    /\ activeCalls' = [activeCalls EXCEPT ![p] = NoCall]
    /\ dialogs' = dialogs \ {<<p, c>>}
    /\ ret' = NoRet
    /\ UNCHANGED <<peerConnections, dataChannels, localStream, pcs, isOpen, tasks,
                   early>>

\* endCall(peerId)
EndCall(p) ==
    /\ Event
    /\ IF activeCalls[p] # NoCall
       THEN /\ sent' = sendSignalingMessage(p, "rtc:call-end", activeCalls[p].callId, "")
            /\ SetMgr(closePeerConnection(Mgr, p))
            /\ activeCalls' = [activeCalls EXCEPT ![p] = NoCall]
            /\ early' = EarlyAfterClose(p)
       ELSE /\ sent' = <<>>
            /\ UNCHANGED <<peerConnections, dataChannels, localStream, pcs,
                           activeCalls, early>>
    /\ tasks' = MarkEnded(tasks, p)
    /\ ret' = NoRet
    /\ UNCHANGED <<dialogs, isOpen>>

\* ------------------------------------------------ inbound signaling messages
\* handleOffer(peerId, message) up to the first engine await: a connection is
\* created when the registry has none (a failure is caught and logged), then
\* RTCManager.handleOffer starts setRemoteDescription on the registered
\* connection.
HandleOffer(p, engineOk) ==
    /\ Event
    /\ IF peerConnections[p] = 0
       THEN /\ IF engineOk
               THEN /\ SetMgr(createPeerConnection(Mgr, p, FALSE))
                    /\ tasks' = Append(tasks,
                           Task("handleOffer", p, Len(pcs) + 1, "setRemoteOffer", ""))
               ELSE UNCHANGED <<peerConnections, dataChannels, localStream, pcs, tasks>>
       ELSE /\ engineOk
            /\ tasks' = Append(tasks,
                   Task("handleOffer", p, peerConnections[p], "setRemoteOffer", ""))
            /\ UNCHANGED <<peerConnections, dataChannels, localStream, pcs>>
    /\ Quiet
    /\ UNCHANGED <<activeCalls, dialogs, isOpen, early>>

\* The continuation of handleOffer when the engine settles the awaited
\* operation: setRemoteDescription, createAnswer, then setLocalDescription,
\* after which onAnswer sends the answer.  A rejection is caught and logged.
HandleOfferResume(k, ok) ==
    /\ k \in DOMAIN tasks
    /\ tasks[k].kind = "handleOffer"
    /\ LET t == tasks[k]
           c == pcs[t.pc]
       IN /\ ok => EngineCanComplete(c, t.pos)
          /\ IF ~ok
             THEN /\ tasks' = RemoveAt(tasks, k)
                  /\ sent' = <<>>
                  /\ UNCHANGED pcs
             ELSE IF t.pos = "setRemoteOffer"
             THEN /\ pcs' = [pcs EXCEPT ![t.pc].remote = "offer"]
                  /\ tasks' = [tasks EXCEPT ![k].pos = "createAnswer"]
                  /\ sent' = <<>>
             ELSE IF t.pos = "createAnswer"
             THEN /\ tasks' = [tasks EXCEPT ![k].pos = "setLocalAnswer"]
                  /\ sent' = <<>>
                  /\ UNCHANGED pcs
             ELSE /\ pcs' = [pcs EXCEPT ![t.pc].local = "answer"]
                  /\ sent' = sendSignalingMessage(t.peerId, "rtc:answer", "", "")
                  /\ tasks' = RemoveAt(tasks, k)
    /\ ret' = NoRet
    /\ UNCHANGED <<peerConnections, dataChannels, localStream, activeCalls, dialogs,
                   isOpen, early, now>>

\* handleAnswer(peerId, message): RTCManager.handleAnswer throws when no
\* connection is registered (caught and logged), else starts
\* setRemoteDescription on the registered connection.
HandleAnswer(p) ==
    /\ Event
    /\ IF peerConnections[p] = 0
       THEN UNCHANGED tasks
       ELSE /\ tasks' = Append(tasks,
                   Task("handleAnswer", p, peerConnections[p], "setRemoteAnswer", ""))
    /\ Quiet
    /\ UNCHANGED <<peerConnections, dataChannels, localStream, pcs, activeCalls, dialogs,
                   isOpen, early>>

\* The continuation of handleAnswer when the engine settles
\* setRemoteDescription.
HandleAnswerResume(k, ok) ==
    /\ k \in DOMAIN tasks
    /\ tasks[k].kind = "handleAnswer"
    /\ LET t == tasks[k]
           c == pcs[t.pc]
       IN /\ ok => EngineCanComplete(c, t.pos)
          /\ pcs' = IF ok THEN [pcs EXCEPT ![t.pc].remote = "answer"] ELSE pcs
          /\ tasks' = RemoveAt(tasks, k)
    /\ Quiet
    /\ UNCHANGED <<peerConnections, dataChannels, localStream, activeCalls, dialogs,
                   isOpen, early, now>>

\* RTCManager.addIceCandidate(peerId, candidate): a missing connection throws
\* (caught and logged); otherwise the candidate goes straight to
\* pc.addIceCandidate, whose outcome is only logged.
addIceCandidate(m, p, k) ==
    IF m.pc[p] = 0 THEN m
    ELSE [m EXCEPT !.heap[m.pc[p]].cands =
              Append(@, [c |-> k, late |-> m.heap[m.pc[p]].remote # "none"])]

\* handleIceCandidate(peerId, message)
HandleIceCandidate(p, k) ==
    /\ Event
    /\ SetMgr(addIceCandidate(Mgr, p, k))
    /\ early' = IF RemoteApplied(p) THEN early ELSE [early EXCEPT ![p] = Append(@, k)]
    /\ Quiet
    /\ UNCHANGED <<activeCalls, dialogs, isOpen, tasks>>

\* handleCallRequest(peerId, message): onCallRequest shows the dialog.
HandleCallRequest(p, c) ==
    /\ Event
    /\ dialogs' = dialogs \cup {<<p, c>>}
    /\ Quiet
    /\ UNCHANGED <<peerConnections, dataChannels, localStream, pcs, activeCalls, isOpen,
                   tasks, early>>

\* handleCallAccept(peerId, message): onCallAccept only notifies.
HandleCallAccept(p, c) ==
    /\ Event
    /\ Quiet
    /\ UNCHANGED <<peerConnections, dataChannels, localStream, pcs, activeCalls, dialogs,
                   isOpen, tasks, early>>

\* A consumer callback throws inside a message handler: the handler stops
\* there, and handleSignalingMessage catches and logs the error.
CallbackThrows(p) ==
    /\ sent' = <<>>
    /\ ret' = Ret("handleSignalingMessage", p, "caught")
    /\ UNCHANGED <<peerConnections, dataChannels, localStream, pcs, activeCalls, dialogs,
                   isOpen, tasks, early>>

\* handleCallReject(peerId, message): onCallReject notifies, then the call
\* record is deleted and the registered connection closed.  cbOk tells
\* whether the callback returns.
HandleCallReject(p, c, reason, cbOk) ==
    /\ Event
    /\ IF cbOk
       THEN /\ activeCalls' = [activeCalls EXCEPT ![p] = NoCall]
            /\ SetMgr(closePeerConnection(Mgr, p))
            /\ early' = EarlyAfterClose(p)
            /\ tasks' = MarkEnded(tasks, p)
            /\ Quiet
            /\ UNCHANGED <<dialogs, isOpen>>
       ELSE CallbackThrows(p)

\* handleCallEnd(peerId, message): onCallEnd notifies, then the call record is
\* deleted and the registered connection closed.  cbOk tells whether the
\* callback returns.
HandleCallEnd(p, c, cbOk) ==
    /\ Event
    /\ IF cbOk
       THEN /\ activeCalls' = [activeCalls EXCEPT ![p] = NoCall]
            /\ SetMgr(closePeerConnection(Mgr, p))
            /\ early' = EarlyAfterClose(p)
            /\ tasks' = MarkEnded(tasks, p)
            /\ Quiet
            /\ UNCHANGED <<dialogs, isOpen>>
       ELSE CallbackThrows(p)

MessageTypes == {"rtc:offer", "rtc:answer", "rtc:ice-candidate", "rtc:call-request",
                 "rtc:call-accept", "rtc:call-reject", "rtc:call-end"}

\* A dispatch that treats a type without handler as rtc:call-end.
HandleUnknownAsCallEnd(p) == \E c \in LocalCallIds : HandleCallEnd(p, c, TRUE)

\* A message whose type has no handler is ignored: the dispatch finds no
\* handler and returns.
HandleUnknown(p) ==
    /\ Event
    /\ sent' = <<>>
    /\ ret' = Ret("handleSignalingMessage", p, "no-handler")
    /\ UNCHANGED <<peerConnections, dataChannels, localStream, pcs, activeCalls, dialogs,
                   isOpen, tasks, early>>

\* A message that is not an object (an rtc:signal envelope without data):
\* reading message.type throws before the try block is entered, so the promise
\* handleSignalingMessage returns is rejected.
HandleMalformed(p) ==
    /\ Event
    /\ sent' = <<>>
    /\ ret' = Ret("handleSignalingMessage", p, "error")
    /\ UNCHANGED <<peerConnections, dataChannels, localStream, pcs, activeCalls, dialogs,
                   isOpen, tasks, early>>

\* What the secure channel can deliver: a message of a known type, of a type
\* without handler, or no message object at all.
InboundTypes == MessageTypes \cup {"rtc:unknown", "malformed"}

\* handleSignalingMessage(peerId, message): dispatch on message.type; the
\* fields a handler does not read are left out of its inputs.
HandleSignalingMessage(p, type) ==
    \/ type = "rtc:offer" /\ \E engineOk \in BOOLEAN : HandleOffer(p, engineOk)
    \/ type = "rtc:answer" /\ HandleAnswer(p)
    \/ type = "rtc:ice-candidate" /\ \E k \in Cands : HandleIceCandidate(p, k)
    \/ type = "rtc:call-request" /\ \E c \in RemoteCallIds : HandleCallRequest(p, c)
    \/ type = "rtc:call-accept" /\ \E c \in LocalCallIds : HandleCallAccept(p, c)
    \/ type = "rtc:call-reject" /\ \E c \in LocalCallIds, r \in Reasons, cbOk \in BOOLEAN :
          HandleCallReject(p, c, r, cbOk)
    \/ type = "rtc:call-end" /\ \E c \in LocalCallIds, cbOk \in BOOLEAN :
          HandleCallEnd(p, c, cbOk)
    \/ type = "rtc:unknown" /\ HandleUnknown(p)
    \/ type = "malformed" /\ HandleMalformed(p)

\* ------------------------------------------------------------ engine events
ConnStates == {"connected", "disconnected", "failed"}

\* onconnectionstatechange of connection i: the state is surfaced for the
\* peerId the connection was created for, and failed / disconnected closes
\* whatever connection is registered for that peerId.  The engine reports
\* connected only with both descriptions committed, and a failure only once
\* a description has started its transports.
ConnectionStateChange(i, s) ==
    /\ Event
    /\ i \in DOMAIN pcs
    /\ ~pcs[i].closed
    /\ IF s = "connected"
       THEN pcs[i].local # "none" /\ pcs[i].remote # "none"
       ELSE pcs[i].local # "none" \/ pcs[i].remote # "none"
    /\ LET p == pcs[i].peerId
       IN /\ ret' = Ret("onConnectionStateChange", p, s)
          /\ IF s \in {"failed", "disconnected"}
             THEN /\ SetMgr(closePeerConnection(Mgr, p))
                  /\ early' = EarlyAfterClose(p)
             ELSE UNCHANGED <<peerConnections, dataChannels, localStream, pcs, early>>
    /\ sent' = <<>>
    /\ UNCHANGED <<activeCalls, dialogs, isOpen, tasks>>

\* onicecandidate of connection i: the engine gathers candidates once a local
\* description is committed; each is sent as rtc:ice-candidate.
IceCandidateEvent(i) ==
    /\ Event
    /\ i \in DOMAIN pcs
    /\ ~pcs[i].closed
    /\ pcs[i].local # "none"
    /\ sent' = sendSignalingMessage(pcs[i].peerId, "rtc:ice-candidate", "", "")
    /\ ret' = NoRet
    /\ UNCHANGED <<peerConnections, dataChannels, localStream, pcs, activeCalls, dialogs,
                   isOpen, tasks, early>>

\* ondatachannel of connection i (the remote initiator's channel arrives once
\* the session is negotiated): setupDataChannel registers it under the peerId.
DataChannelEvent(i) ==
    /\ Event
    /\ i \in DOMAIN pcs
    /\ ~pcs[i].closed
    /\ ~pcs[i].isInitiator
    /\ pcs[i].local # "none" /\ pcs[i].remote # "none"
    /\ dataChannels' = [dataChannels EXCEPT ![pcs[i].peerId] = i]
    /\ Quiet
    /\ UNCHANGED <<peerConnections, localStream, pcs, activeCalls, dialogs, isOpen,
                   tasks, early>>

\* ------------------------------------------------------------- environment
\* The secure channel opens or closes.
ChannelChange ==
    /\ Event
    /\ isOpen' = ~isOpen
    /\ Quiet
    /\ UNCHANGED <<peerConnections, dataChannels, localStream, pcs, activeCalls, dialogs,
                   tasks, early>>

\* RTCSignaling.destroy(): endCall for every recorded call, in the order the
\* Map iterates them, then RTCManager.destroy().
Destroy ==
    /\ Event
    /\ LET active == {p \in Peers : activeCalls[p] # NoCall}
           End(p) == sendSignalingMessage(p, "rtc:call-end", activeCalls[p].callId, "")
       IN /\ \E order \in [1..Cardinality(active) -> active] :
                /\ \A i, j \in DOMAIN order : order[i] = order[j] => i = j
                /\ sent' = IF order = <<>> THEN <<>>
                           ELSE IF Len(order) = 1 THEN End(order[1])
                           ELSE End(order[1]) \o End(order[2])
          /\ SetMgr(destroyManager(CloseAll(Mgr, active)))
    /\ activeCalls' = [p \in Peers |-> NoCall]
    /\ early' = [p \in Peers |-> <<>>]
    /\ tasks' = [i \in DOMAIN tasks |-> [tasks[i] EXCEPT !.ended = TRUE]]
    /\ ret' = NoRet
    /\ UNCHANGED <<dialogs, isOpen>>

Next ==
    \/ \E p \in Peers, id \in LocalCallIds, ok \in BOOLEAN : InitiateCall(p, id, ok)
    \/ \E k \in DOMAIN tasks, ok \in BOOLEAN : InitiateCallResume(k, ok)
    \/ \E p \in Peers, c \in RemoteCallIds, ok \in BOOLEAN : AcceptCall(p, c, ok)
    \/ \E p \in Peers, c \in RemoteCallIds, r \in Reasons : RejectCall(p, c, r)
    \/ \E p \in Peers : EndCall(p)
    \/ \E p \in Peers, type \in InboundTypes :
          HandleSignalingMessage(p, type)
    \/ \E k \in DOMAIN tasks, ok \in BOOLEAN : HandleOfferResume(k, ok)
    \/ \E k \in DOMAIN tasks, ok \in BOOLEAN : HandleAnswerResume(k, ok)
    \/ \E i \in DOMAIN pcs, s \in ConnStates : ConnectionStateChange(i, s)
    \/ \E i \in DOMAIN pcs : IceCandidateEvent(i)
    \/ \E i \in DOMAIN pcs : DataChannelEvent(i)
    \/ ChannelChange
    \/ Destroy

Spec == Init /\ [][Next]_vars

\* ------------------------------------------------------------ shared notions
\* The connections of peer p that are still open, registered or not.
OpenPcs(P, p) == {i \in DOMAIN P : P[i].peerId = p /\ ~P[i].closed}

\* The connections closed by the step.
NewlyClosed == {i \in DOMAIN pcs : ~pcs[i].closed /\ pcs'[i].closed}

\* Both session descriptions are committed on the connection registered for p.
Negotiated(p) ==
    /\ peerConnections[p] # 0
    /\ pcs[peerConnections[p]].local # "none"
    /\ pcs[peerConnections[p]].remote # "none"

\* The candidates handed to the connection registered for p once its remote
\* description was committed, in the order they were handed.
RECURSIVE LateCands(_)
LateCands(cs) ==
    IF cs = <<>> THEN <<>>
    ELSE IF Head(cs).late THEN <<Head(cs).c>> \o LateCands(Tail(cs))
    ELSE LateCands(Tail(cs))

IsPrefix(a, b) == Len(a) <= Len(b) /\ SubSeq(b, 1, Len(a)) = a

\* ------------------------------------------------------------------- claims
\* C1: every candidate handed to pc.addIceCandidate was handed after the
\* remote description of that connection had been committed.
C1_CandidateOnlyAfterRemoteDescription ==
    \A i \in DOMAIN pcs : \A j \in DOMAIN pcs[i].cands : pcs[i].cands[j].late

\* C2: once the remote description of peer p is applied and no handler of p is
\* still suspended on the engine, every candidate that arrived from p before
\* the description was applied has been forwarded to the engine after it was
\* applied, none dropped, in arrival order.
C2_EarlyCandidatesForwardedInOrder ==
    \A p \in Peers :
        (RemoteApplied(p) /\ \A k \in DOMAIN tasks : tasks[k].peerId # p)
        => IsPrefix(early[p], LateCands(pcs[peerConnections[p]].cands))

\* What endCall leaves alone when no call is recorded for the peer.
EndCallFrame ==
    UNCHANGED <<peerConnections, dataChannels, localStream, pcs, activeCalls, dialogs, isOpen>>

C4_EndCallReleasesSession ==
    [][\A p \in Peers : EndCall(p) => OpenPcs(pcs', p) = {}]_vars

\* C5: a negotiation step of a peer that completes after that peer's call was
\* torn down sends no rtc:offer or rtc:answer and records no Call Session.
C5_LateResultsDiscarded ==
    [][\A k \in DOMAIN tasks :
          (tasks[k].ended /\ \E ok \in BOOLEAN :
               InitiateCallResume(k, ok) \/ HandleOfferResume(k, ok))
          => (sent' = <<>> /\ activeCalls' = activeCalls)]_vars

\* C6: when connected is surfaced for a peer with a Call Session, both session
\* descriptions are committed on that peer's Transport Session.
C6_EstablishedOnlyWhenNegotiated ==
    \A p \in Peers :
        (ret = Ret("onConnectionStateChange", p, "connected") /\ activeCalls[p] # NoCall)
        => Negotiated(p)

\* The peer is in INCOMING_RINGING: its call-request dialog is pending and no
\* Call Session is recorded for it yet.
IncomingRinging(p, c) == <<p, c>> \in dialogs /\ activeCalls[p] = NoCall

\* C7: rejectCall on a ringing peer ends the session, hands exactly one
\* rtc:call-reject with the supplied reason to the secure channel, and leaves
\* open no connection opened for that peer's incoming call (as receiver).
C7_RejectLeavesNoSession ==
    [][\A p \in Peers, c \in RemoteCallIds, r \in Reasons :
          (IncomingRinging(p, c) /\ RejectCall(p, c, r))
          => /\ sent' = sendSignalingMessage(p, "rtc:call-reject", c, r)
             /\ activeCalls'[p] = NoCall
             /\ \A i \in OpenPcs(pcs', p) : pcs'[i].isInitiator]_vars

\* C8: initiateCall on a peer that has a Call Session is refused: it sends
\* nothing, opens no connection, starts no negotiation and leaves the
\* recorded Call Session as it is.
C8_InitiateRefusedOnConflict ==
    [][\A p \in Peers, id \in LocalCallIds, ok \in BOOLEAN :
          (activeCalls[p] # NoCall /\ InitiateCall(p, id, ok))
          => /\ sent' = <<>>
             /\ UNCHANGED <<pcs, peerConnections, tasks, activeCalls>>]_vars

\* C9: when initiateCall surfaces a failure of offer generation, the
\* connection it had opened is closed and unregistered and no Call Session is
\* recorded for the peer.
C9_FailureCleansPartialSession ==
    [][\A k \in DOMAIN tasks :
          InitiateCallResume(k, FALSE)
          => /\ ret' = Ret("initiateCall", tasks[k].peerId, "error")
             /\ pcs'[tasks[k].pc].closed
             /\ peerConnections'[tasks[k].peerId] = 0
             /\ activeCalls'[tasks[k].peerId] = NoCall]_vars

\* C10: a registered connection that is still open is never replaced in the
\* registry: the entry of a peer changes only by closing that connection.
C10_OpenSessionNeverReplaced ==
    [][\A p \in Peers :
          (peerConnections[p] # 0 /\ ~pcs[peerConnections[p]].closed
             /\ peerConnections'[p] # peerConnections[p])
          => pcs'[peerConnections[p]].closed]_vars

\* The step brings the Call Session of peer p to a terminal state: a recorded
\* call is removed, a ringing call is rejected, or failed / disconnected is
\* surfaced for a peer with a recorded call.
CallTerminates(p) ==
    \/ activeCalls[p] # NoCall /\ activeCalls'[p] = NoCall
    \/ \E c \in RemoteCallIds, r \in Reasons : IncomingRinging(p, c) /\ RejectCall(p, c, r)
    \/ /\ activeCalls[p] # NoCall
       /\ ret' \in {Ret("onConnectionStateChange", p, s) : s \in {"failed", "disconnected"}}

\* C11: a step that brings the Call Session of a peer to a terminal state
\* leaves no connection of that peer open.
C11_TerminalClosesSession ==
    [][\A p \in Peers : CallTerminates(p) => OpenPcs(pcs', p) = {}]_vars

\* C12: when failed or disconnected is reported for the connection registered
\* for a peer, the state is surfaced through onConnectionStateChange, the
\* connection is closed and unregistered, and the peer no longer has a
\* recorded (active) call.
C12_FailureEndsCall ==
    [][\A i \in DOMAIN pcs, s \in {"failed", "disconnected"} :
          (ConnectionStateChange(i, s) /\ peerConnections[pcs[i].peerId] = i)
          => /\ ret' = Ret("onConnectionStateChange", pcs[i].peerId, s)
             /\ pcs'[i].closed
             /\ peerConnections'[pcs[i].peerId] = 0
             /\ activeCalls'[pcs[i].peerId] = NoCall]_vars

\* C13: a step other than the full shutdown never stops the local tracks
\* while a connection of a peer whose session the step did not close is open
\* and has those tracks attached.
C13_LocalTracksSurviveOtherPeersClose ==
    [][(localStream = "live" /\ localStream' = "stopped")
          => \A q \in Peers \ {pcs[i].peerId : i \in NewlyClosed} :
                \A j \in OpenPcs(pcs', q) : ~pcs'[j].tracks]_vars

\* The step begins the handling of a trigger for peer p: an inbound message
\* from p or a local intent on p.
TriggerFor(p) ==
    \/ \E type \in InboundTypes : HandleSignalingMessage(p, type)
    \/ \E id \in LocalCallIds, ok \in BOOLEAN : InitiateCall(p, id, ok)
    \/ \E c \in RemoteCallIds, ok \in BOOLEAN : AcceptCall(p, c, ok)
    \/ \E c \in RemoteCallIds, r \in Reasons : RejectCall(p, c, r)
    \/ EndCall(p)

\* C14: the handling of a message or local intent for peer p does not begin
\* while an earlier one for p is still suspended on an engine operation.
C14_PerPeerSerialization ==
    [][\A p \in Peers : TriggerFor(p) => \A k \in DOMAIN tasks : tasks[k].peerId # p]_vars

\* C15: acceptCall and rejectCall on a peer that is not in INCOMING_RINGING
\* send no message, open no connection and leave every Call Session unchanged.
C15_AcceptRejectOnlyWhenRinging ==
    [][\A p \in Peers, c \in RemoteCallIds :
          (/\ ~IncomingRinging(p, c)
           /\ \/ \E ok \in BOOLEAN : AcceptCall(p, c, ok)
              \/ \E r \in Reasons : RejectCall(p, c, r))
          => /\ sent' = <<>>
             /\ UNCHANGED <<pcs, peerConnections, activeCalls>>]_vars

\* The Call Session and the Transport Sessions of peer q are what they were.
SessionsUnchanged(q) ==
    /\ activeCalls'[q] = activeCalls[q]
    /\ peerConnections'[q] = peerConnections[q]
    /\ dataChannels'[q] = dataChannels[q]
    /\ \A i \in DOMAIN pcs : pcs[i].peerId = q => pcs'[i] = pcs[i]
    /\ \A i \in DOMAIN pcs' \ DOMAIN pcs : pcs'[i].peerId # q

\* C16: handling an inbound message from peer p never surfaces a failure to
\* the caller of handleSignalingMessage and never changes the Call Session or
\* a Transport Session of another peer.
C16_HandlerErrorsIsolated ==
    [][\A p \in Peers, type \in InboundTypes :
          HandleSignalingMessage(p, type)
          => /\ ret'.status # "error"
             /\ \A q \in Peers \ {p} : SessionsUnchanged(q)]_vars

\* C17: handling a message whose type is not one of the seven known types
\* sends nothing and leaves every Call Session, every Transport Session, the
\* registries, the pending dialogs and the suspended handlers as they were.
C17_UnknownTypeIgnored ==
    [][\A p \in Peers :
          HandleSignalingMessage(p, "rtc:unknown")
          => /\ sent' = <<>>
             /\ UNCHANGED <<activeCalls, peerConnections, dataChannels, pcs, localStream,
                            dialogs, tasks>>]_vars

\* C17 witness: a message of unknown type from a peer has just been handled
\* while that peer has a recorded call and an open registered connection.
C17_Witness ==
    \E p \in Peers :
        /\ ret = Ret("handleSignalingMessage", p, "no-handler")
        /\ activeCalls[p] # NoCall
        /\ peerConnections[p] # 0
        /\ ~pcs[peerConnections[p]].closed

\* The offer / answer exchange with peer p has completed on a connection of p
\* that is still open.
ExchangeCompleted(p) ==
    \E i \in OpenPcs(pcs, p) : pcs[i].local # "none" /\ pcs[i].remote # "none"

\* C18: once the offer / answer exchange of the setup scenario has completed
\* for a peer and the peer's Call Session is recorded (initiateCall returned on
\* the caller, acceptCall on the callee), the Transport Session held for that
\* peer has both a local and a remote description committed.
C18_SetupReachesNegotiated ==
    \A p \in Peers :
        (activeCalls[p] # NoCall /\ ExchangeCompleted(p)) => Negotiated(p)

\* C19: ending a call whose exchange has completed, over an open channel:
\* endCall sends exactly one rtc:call-end carrying the call's callId;
\* receiving rtc:call-end sends nothing back; on either side the Call Session
\* is removed and no connection of the peer stays open.
C19_TeardownScenario ==
    [][\A p \in Peers :
          (activeCalls[p] # NoCall /\ ExchangeCompleted(p) /\ isOpen)
          => /\ EndCall(p)
                => /\ sent' = <<Msg(p, "rtc:call-end", activeCalls[p].callId, "")>>
                   /\ activeCalls'[p] = NoCall
                   /\ OpenPcs(pcs', p) = {}
             /\ (\E c \in LocalCallIds : HandleCallEnd(p, c, TRUE))
                => /\ sent' = <<>>
                   /\ activeCalls'[p] = NoCall
                   /\ OpenPcs(pcs', p) = {}]_vars

\* C20: closePeerConnection on a peer without a registered connection (unknown
\* or already closed) changes nothing, and closing a peer twice gives the
\* state that closing it once gives.
C20_CloseIdempotent ==
    \A p \in Peers :
        LET once == closePeerConnection(Mgr, p)
        IN /\ peerConnections[p] = 0 => once = Mgr
           /\ closePeerConnection(once, p) = once

\* C20 witness: closePeerConnection has closed and unregistered the connection
\* of one peer, and another peer has a registered connection whose close
\* would change the state.
C20_Witness ==
    \E p, q \in Peers :
        /\ peerConnections[p] = 0
        /\ \E i \in DOMAIN pcs : pcs[i].peerId = p /\ pcs[i].closed
        /\ peerConnections[q] # 0
        /\ closePeerConnection(Mgr, q) # Mgr

\* C21: when the handling of an rtc:offer completes on a receiver connection
\* over an open channel, the remote offer is committed on the connection
\* registered for the peer, exactly one rtc:answer is sent, and a Call Session
\* with role receiver is recorded for the peer.
C21_OfferCreatesReceiverCall ==
    [][\A k \in DOMAIN tasks :
          (/\ HandleOfferResume(k, TRUE)
           /\ tasks[k].pos = "setLocalAnswer"
           /\ ~pcs[tasks[k].pc].isInitiator
           /\ isOpen)
          => /\ sent' = <<Msg(tasks[k].peerId, "rtc:answer", "", "")>>
             /\ pcs'[tasks[k].pc].remote = "offer"
             /\ activeCalls'[tasks[k].peerId] # NoCall
             /\ ~activeCalls'[tasks[k].peerId].initiator]_vars

\* C22: an rtc:offer whose handling runs on a connection opened as initiator,
\* or on one that already has a remote description committed, is rejected: no
\* description is applied, nothing is sent and the connection is unchanged.
C22_OfferOnlyOnFreshReceiverSession ==
    [][\A k \in DOMAIN tasks, ok \in BOOLEAN :
          (/\ HandleOfferResume(k, ok)
           /\ tasks[k].pos = "setRemoteOffer"
           /\ pcs[tasks[k].pc].isInitiator \/ pcs[tasks[k].pc].remote # "none")
          => (pcs' = pcs /\ sent' = <<>> /\ tasks' = RemoveAt(tasks, k))]_vars

NegotiationTypes == {"rtc:offer", "rtc:answer", "rtc:ice-candidate"}

\* C23: whenever a negotiation message is sent to a peer, a Transport Session
\* is registered for that peer at the moment of sending.
C23_NoNegotiationWithoutSession ==
    [][\A j \in DOMAIN sent' :
          sent'[j].type \in NegotiationTypes => peerConnections[sent'[j].to] # 0]_vars

\* C24: a failed or disconnected report from a connection that is not the one
\* registered for its peer leaves the peer's registry entry and the registered
\* connection as they were.
C24_StaleFailureKeepsRegistered ==
    [][\A i \in DOMAIN pcs, s \in {"failed", "disconnected"} :
          (ConnectionStateChange(i, s) /\ peerConnections[pcs[i].peerId] # i)
          => /\ peerConnections'[pcs[i].peerId] = peerConnections[pcs[i].peerId]
             /\ peerConnections[pcs[i].peerId] # 0
                => pcs'[peerConnections[pcs[i].peerId]] = pcs[peerConnections[pcs[i].peerId]]]_vars

\* C25: every handling of rtc:call-end or rtc:call-reject from a peer,
\* whether or not the consumer's callback returns, removes the peer's Call
\* Session and closes and unregisters the connection registered for the peer.
C25_CleanupOnEveryExitPath ==
    [][\A p \in Peers, c \in LocalCallIds, cbOk \in BOOLEAN :
          (\/ HandleCallEnd(p, c, cbOk)
           \/ \E r \in Reasons : HandleCallReject(p, c, r, cbOk))
          => /\ activeCalls'[p] = NoCall
             /\ peerConnections'[p] = 0
             /\ peerConnections[p] # 0 => pcs'[peerConnections[p]].closed]_vars

\* C26: after destroy() no Call Session remains, both registries are empty,
\* the local stream is released and every connection ever created is closed.
C26_DestroyLeavesNothingOpen ==
    [][Destroy
          => /\ \A p \in Peers :
                  /\ activeCalls'[p] = NoCall
                  /\ peerConnections'[p] = 0
                  /\ dataChannels'[p] = 0
             /\ localStream' = "null"
             /\ \A i \in DOMAIN pcs' : pcs'[i].closed]_vars
====
